---- MODULE Spec2Model ----
(***************************************************************************)
(* Model of converter_app.py: a Tkinter front end (UI thread) that starts  *)
(* one daemon worker thread per batch; the worker drives a Word instance   *)
(* and posts every UI update to the Tk event loop with root.after(0, ...). *)
(***************************************************************************)
EXTENDS Integers, Sequences, FiniteSets, TLC

(* ---------------------------------------------------------------- bounds *)
\* number of batches the user starts in one behaviour
MaxRuns == 2
\* number of paths the file dialog returns in one selection
MaxPick == 2
\* number of requests the user makes in one behaviour (buttons and typing)
MaxOps == 3
\* number of calls to the system and to Word that raise in one behaviour
MaxFaults == 2

(* ----------------------------------------------------------------- paths *)
\* A directory text is the sequence of its components, the drive first;
\* the empty sequence is the empty string.  A file path is a directory
\* text, a base name stem and an extension.
DirA == <<"C:", "A">>
DirB == <<"C:", "B">>
DirADot == <<"C:", "A", ".">>
DirAUpB == <<"C:", "A", "..", "B">>
DirGone == <<"C:", "Gone">>
EmptyText == <<>>

File(d, s, e) == [dir |-> d, stem |-> s, ext |-> e]

\* what the file dialog can return
RawFiles ==
    { File(DirA, "x", "docx"), File(DirADot, "x", "docx"),
      File(DirB, "x", "doc"), File(DirA, "y", "docx") }

\* what the directory dialog can return ("" when cancelled) and what can be
\* typed into the output entry
DialogDirs == { EmptyText, DirA, DirAUpB }
EntryTexts == { EmptyText, DirA, DirB, DirGone }

\* the directories that exist on disk
ExistingDirs == { DirA, DirB }
Stems == { "x", "y" }

RECURSIVE NormComps(_, _)
NormComps(comps, acc) ==
    IF comps = <<>> THEN acc
    ELSE LET c == Head(comps) IN
         IF c = "." \/ c = "" THEN NormComps(Tail(comps), acc)
         ELSE IF c = ".."
              THEN IF Len(acc) > 0
                   THEN NormComps(Tail(comps), SubSeq(acc, 1, Len(acc) - 1))
                   ELSE NormComps(Tail(comps), acc)
              ELSE NormComps(Tail(comps), Append(acc, c))

\* os.path.normpath of a directory text
normpath_dir(d) ==
    IF d = <<>> THEN <<".">> ELSE <<Head(d)>> \o NormComps(Tail(d), <<>>)

\* os.path.normpath of a file path
normpath(p) == [p EXCEPT !.dir = normpath_dir(p.dir)]

dirname(p) == p.dir
isdir(d) == normpath_dir(d) \in ExistingDirs

\* a destination is the absolute form of <output_dir>/<stem>.pdf
Dests == ExistingDirs \X Stems
\* faulty variant: the PDF is placed next to its source
_build_output_path_NextToSource(file_path, output_dir) ==
    [dir |-> dirname(file_path), stem |-> file_path.stem, ext |-> "pdf"]

_build_output_path(file_path, output_dir) ==
    [dir |-> output_dir, stem |-> file_path.stem, ext |-> "pdf"]
abspath(p) == <<normpath_dir(p.dir), p.stem>>

(* ---------------------------------------------------------------- values *)
GCD(a, b) ==
    CHOOSE g \in 1..(IF a > b THEN a ELSE b) :
        /\ a % g = 0 /\ b % g = 0
        /\ \A h \in 1..(IF a > b THEN a ELSE b) :
               (a % h = 0 /\ b % h = 0) => h <= g

\* a progress value, kept as the fraction num/den in lowest terms
Rat(n, d) == IF n = 0 THEN [num |-> 0, den |-> 1]
             ELSE [num |-> n \div GCD(n, d), den |-> d \div GCD(n, d)]
Zero == Rat(0, 1)
Leq(p, q) == p.num * q.den <= q.num * p.den

\* progress = (index / total) * 100.0
ProgressOf(index, total) == Rat(index * 100, total)

\* a text shown in the status line, the log or a message box: the template
\* and what is formatted into it (numbers, an error name, a directory)
Text(k, a, b, e) == [kind |-> k, a |-> a, b |-> b, e |-> e, p |-> <<>>]
Plain(k) == Text(k, 0, 0, "")

\* a callback registered by thread t: the function and its arguments
Msg(t, fn, title, text, details) ==
    [t |-> t, fn |-> fn, title |-> title, text |-> text, d |-> details]

Absent == [kind |-> "absent", run |-> 0, idx |-> 0]
Preexisting == [kind |-> "pdf", run |-> 0, idx |-> 0]
Pdf(run, idx) == [kind |-> "pdf", run |-> run, idx |-> idx]

Tids == 1..MaxRuns

VARIABLES
    selected_files,      \* self.selected_files
    output_dir_var,      \* self.output_dir_var
    progress_var,        \* self.progress_var
    status_var,          \* self.status_var
    log,                 \* content of self.log_widget
    controls,            \* state of the four buttons
    conversion_thread,   \* self._conversion_thread: 0 is None, else a thread id
    notice,              \* the last message box shown
    queue,               \* callbacks registered with root.after(0, ...), in order
    threads,             \* the worker threads: locals and position
    word,                \* the Word instances, one slot per thread
    fs,                  \* the PDF files on disk, by destination
    ops,                 \* requests made by the user so far
    faults               \* calls that have raised so far

\* the state the UI thread owns
ui == << selected_files, output_dir_var, progress_var, status_var, log,
        controls, conversion_thread, notice >>

vars == << selected_files, output_dir_var, progress_var, status_var, log,
           controls, conversion_thread, notice, queue, threads, word, fs,
           ops, faults >>
Range(s) == { s[i] : i \in DOMAIN s }

\* the tuples the file dialog can return: up to MaxPick distinct paths
Picks ==
    { s \in UNION { [1..n -> RawFiles] : n \in 0..MaxPick } :
        \A i, j \in DOMAIN s : i # j => s[i] # s[j] }

(* --------------------------------------------------------------- threads *)
NoThread ==
    [ pc |-> "unborn", files |-> <<>>, output_dir |-> <<>>,
      com_initialized |-> FALSE, word_app |-> "None", total |-> 0,
      index |-> 0, success_count |-> 0, failures |-> <<>>, doc |-> "None",
      exc |-> "", progress |-> Zero,
      \* history of the run, kept for the properties
      raised |-> <<>>, posted |-> <<>>, dialogs |-> <<>>, found |-> <<>>,
      attempted |-> <<>> ]

\* threading.Thread.is_alive
is_alive(t) == threads[t].pc \notin {"unborn", "done", "crashed"}
Started == { t \in Tids : threads[t].pc # "unborn" }
Alive == { t \in Tids : is_alive(t) }

NoWord == [state |-> "none", launches |-> 0, quits |-> 0, docs |-> {}]

Init ==
    /\ selected_files = <<>>
    /\ output_dir_var = EmptyText
    /\ progress_var = Zero
    /\ status_var = Plain("Select Word files to begin.")
    /\ log = <<>>
    /\ controls = "normal"
    /\ conversion_thread = 0
    /\ notice = "none"
    /\ queue = <<>>
    /\ threads = [t \in Tids |-> NoThread]
    /\ word = [t \in Tids |-> NoWord]
    /\ fs \in { [d \in Dests |-> IF d \in S THEN Preexisting ELSE Absent] :
                  S \in { {}, {<<DirA, "x">>} } }
    /\ ops = 0
    /\ faults = 0

(* ------------------------------------------------------------ UI thread  *)
\* one more request of the user
Request == ops < MaxOps /\ ops' = ops + 1

\* whether a call to the system or to Word returns (TRUE) or raises (FALSE)
Returns == IF faults < MaxFaults THEN BOOLEAN ELSE {TRUE}
Raised(ok) == faults' = IF ok THEN faults ELSE faults + 1

\* faulty variant: the path is looked up as the dialog returned it
AppendNew_RawLookup(list, path) ==
    LET normalized == normpath(path) IN
    IF path \notin Range(list) THEN Append(list, normalized) ELSE list

\* one iteration of the loop of add_files
AppendNew(list, path) ==
    LET normalized == normpath(path) IN
    IF normalized \notin Range(list) THEN Append(list, normalized) ELSE list

RECURSIVE AddAll(_, _)
AddAll(list, new_files) ==
    IF new_files = <<>> THEN list
    ELSE AddAll(AppendNew(list, Head(new_files)), Tail(new_files))

\* faulty variant: the folder of the first entry is set at every add
DefaultOutput_Always(files, out) ==
    IF files # <<>> THEN dirname(files[1]) ELSE out

\* the default of the output folder after an add
DefaultOutput(files, out) ==
    IF files # <<>> /\ out = EmptyText THEN dirname(files[1]) ELSE out

add_files ==
    /\ controls = "normal"
    /\ Request
    /\ \E new_files \in Picks :
         LET list == AddAll(selected_files, new_files)
             added == Len(list) - Len(selected_files)
         IN /\ selected_files' = list
            /\ output_dir_var' = DefaultOutput(list, output_dir_var)
            /\ status_var' =
                 IF added > 0 THEN Text("Loaded", added, Len(list), "")
                 ELSE IF new_files # <<>> THEN Plain("No new files added")
                 ELSE status_var
    /\ UNCHANGED << faults, progress_var, log, controls, conversion_thread, notice,
                    queue, threads, word, fs >>

\* faulty variant: the progress value is left as it is
clear_file_list_KeepsProgress ==
    /\ controls = "normal"
    /\ Request
    /\ selected_files' = <<>>
    /\ status_var' = Plain("Cleared file list.")
    /\ UNCHANGED << faults, progress_var, output_dir_var, log, controls,
                    conversion_thread, notice, queue, threads, word, fs >>

clear_file_list ==
    /\ controls = "normal"
    /\ Request
    /\ selected_files' = <<>>
    /\ progress_var' = Zero
    /\ status_var' = Plain("Cleared file list.")
    /\ UNCHANGED << faults, output_dir_var, log, controls, conversion_thread, notice,
                    queue, threads, word, fs >>

choose_output_directory ==
    /\ controls = "normal"
    /\ Request
    /\ \E directory \in DialogDirs :
         IF directory # EmptyText
         THEN /\ output_dir_var' = normpath_dir(directory)
              /\ status_var' = [Plain("Output folder set to")
                                   EXCEPT !.p = normpath_dir(directory)]
         ELSE UNCHANGED << output_dir_var, status_var >>
    /\ UNCHANGED << faults, selected_files, progress_var, log, controls,
                    conversion_thread, notice, queue, threads, word, fs >>

\* typing into the output entry, which is never disabled
edit_output_entry ==
    /\ Request
    /\ \E text \in EntryTexts : output_dir_var' = text
    /\ UNCHANGED << faults, selected_files, progress_var, status_var, log, controls,
                    conversion_thread, notice, queue, threads, word, fs >>

\* faulty variant: the running thread is not checked
StartVerdict_NoAliveCheck ==
    IF selected_files = <<>> THEN "No files selected"
    ELSE IF output_dir_var = EmptyText THEN "No output folder"
    ELSE IF ~isdir(output_dir_var) THEN "Invalid folder"
    ELSE "ok"

\* faulty variant: the output folder is not checked for existence
StartVerdict_NoIsdir ==
    IF conversion_thread # 0 /\ is_alive(conversion_thread)
        THEN "Conversion in progress"
    ELSE IF selected_files = <<>> THEN "No files selected"
    ELSE IF output_dir_var = EmptyText THEN "No output folder"
    ELSE "ok"

\* the checks of start_conversion, in order: the notice shown, or "ok"
StartVerdict ==
    IF conversion_thread # 0 /\ is_alive(conversion_thread)
        THEN "Conversion in progress"
    ELSE IF selected_files = <<>> THEN "No files selected"
    ELSE IF output_dir_var = EmptyText THEN "No output folder"
    ELSE IF ~isdir(output_dir_var) THEN "Invalid folder"
    ELSE "ok"

\* threading.Thread(target=self._run_conversion, args=(files, output_dir))
NewThread(files, output_dir) ==
    [NoThread EXCEPT !.pc = "CoInitialize", !.files = files,
                     !.output_dir = output_dir]

start_conversion ==
    /\ controls = "normal"
    /\ Request
    /\ faults' = faults
    /\ IF StartVerdict # "ok"
       THEN /\ notice' = StartVerdict
            /\ UNCHANGED << selected_files, output_dir_var, progress_var,
                            status_var, log, controls, conversion_thread,
                            queue, threads, word, fs >>
       ELSE /\ Cardinality(Started) < MaxRuns
            /\ LET t == Cardinality(Started) + 1 IN
               \* _prepare_for_conversion
               /\ progress_var' = Zero
               /\ log' = <<>>
               /\ status_var' = Plain("Starting conversion...")
               /\ controls' = "disabled"
               /\ threads' = [threads EXCEPT
                                ![t] = NewThread(selected_files, output_dir_var)]
               /\ conversion_thread' = t
            /\ UNCHANGED << selected_files, output_dir_var, notice, queue,
                            word, fs >>

(* ------------------------------------------------------------ the worker *)
\* self._log_from_thread(message)
LogMsg(t, text) == Msg(t, "_append_log", "", text, <<>>)
StatusMsg(t, text) == Msg(t, "_set_status", "", text, <<>>)
ProgressMsg(t, value) ==
    Msg(t, "progress_var.set", "",
        Text("progress", value.num, value.den, ""), <<>>)
BoxMsg(t, fn, title, text, details) == Msg(t, fn, title, text, details)
ToggleMsg(t, state) == Msg(t, "_toggle_controls", "", Plain(state), <<>>)

\* faulty variant: the output folder is read from the entry when the file is
\* converted (a folder that does not exist is not used)
DestOf_LiveOutputDir(w) ==
    abspath(_build_output_path(w.files[w.index],
               IF isdir(output_dir_var) THEN output_dir_var ELSE w.output_dir))

\* the destination of the file the thread is at
DestOf(w) == abspath(_build_output_path(w.files[w.index], w.output_dir))

\* faulty variant: the exception is dropped and the finally clause runs
Unexpected_Swallowed(w, what) == [w EXCEPT !.pc = "finally", !.exc = ""]

\* an exception of the try block of _run_conversion reaches its except clause
Unexpected(w, what) == [w EXCEPT !.pc = "except", !.exc = what]

W_CoInitialize(t) ==
    /\ threads[t].pc = "CoInitialize"
    /\ \E ok \in Returns :
         /\ Raised(ok)
         /\ threads' = [threads EXCEPT ![t] =
              IF ok THEN [@ EXCEPT !.com_initialized = TRUE, !.pc = "DispatchEx"]
              ELSE Unexpected(@, "CoInitialize")]
    /\ UNCHANGED << ui, ops, queue, word, fs >>

W_DispatchEx(t) ==
    /\ threads[t].pc = "DispatchEx"
    /\ queue' = Append(queue, LogMsg(t, Plain("Launching Microsoft Word...")))
    /\ \E ok \in Returns :
         IF ok
         THEN /\ Raised(ok)
              /\ threads' = [threads EXCEPT ![t] =
                     [@ EXCEPT !.word_app = "obj", !.pc = "Visible"]]
              /\ word' = [word EXCEPT ![t] =
                     [@ EXCEPT !.state = "live", !.launches = @ + 1]]
         ELSE /\ Raised(ok)
              /\ threads' = [threads EXCEPT ![t] = Unexpected(@, "DispatchEx")]
              /\ word' = word
    /\ UNCHANGED << ui, ops, fs >>

\* word_app.Visible = False, then the set-up of the loop
W_Visible(t) ==
    /\ threads[t].pc = "Visible"
    /\ \E ok \in Returns :
         LET w == threads[t]
             total == Len(w.files)
         IN IF ~ok
            THEN /\ Raised(ok)
                 /\ threads' = [threads EXCEPT ![t] = Unexpected(@, "Visible")]
                 /\ queue' = queue
            ELSE IF total = 0
            THEN /\ Raised(ok)
                 /\ threads' = [threads EXCEPT ![t] =
                        [@ EXCEPT !.total = total, !.pc = "finally"]]
                 /\ queue' = queue \o
                        << LogMsg(t, Plain("No files to convert.")),
                           StatusMsg(t, Plain("No files to convert.")) >>
            ELSE /\ Raised(ok)
                 /\ threads' = [threads EXCEPT ![t] =
                        [@ EXCEPT !.total = total, !.success_count = 0,
                                  !.failures = <<>>, !.index = 1,
                                  !.pc = "loop"]]
                 /\ queue' = Append(queue,
                        LogMsg(t, Text("Converting file(s)", total, 0, "")))
    /\ UNCHANGED << ui, ops, word, fs >>

\* the except and finally clauses of one iteration of the loop, and the step
\* of the loop: what the thread becomes and what it posts when the file at
\* index has ended with outcome ("ok" or the name of the call that raised)
\* faulty variant: the success is counted before the conversion is attempted
Accounted_CountedFirst(w, outcome) ==
    LET c == [w EXCEPT !.success_count = @ + 1] IN
    IF outcome = "ok" THEN c
    ELSE [c EXCEPT !.failures =
              Append(@, [idx |-> w.index, path |-> w.files[w.index],
                         reason |-> outcome])]

Accounted(w, outcome) ==
    IF outcome = "ok"
    THEN [w EXCEPT !.success_count = @ + 1]
    ELSE [w EXCEPT !.failures =
              Append(@, [idx |-> w.index, path |-> w.files[w.index],
                         reason |-> outcome])]

\* faulty variant: progress is computed in the try block, not in its finally clause
FileDonePosts_ProgressInTry(t, w, outcome) ==
    IF outcome = "ok"
    THEN << LogMsg(t, Text("[OK] Saved", w.index, 0, "")),
            ProgressMsg(t, ProgressOf(w.index, w.total)) >>
    ELSE << LogMsg(t, Text("[ERROR] Failed", w.index, 0, outcome)) >>

FileDonePosts(t, w, outcome) ==
    << IF outcome = "ok"
       THEN LogMsg(t, Text("[OK] Saved", w.index, 0, ""))
       ELSE LogMsg(t, Text("[ERROR] Failed", w.index, 0, outcome)),
       ProgressMsg(t, ProgressOf(w.index, w.total)) >>

\* the progress values among the messages posted
PostedValues(msgs) ==
    LET sel == SelectSeq(msgs, LAMBDA m : m.fn = "progress_var.set")
    IN [i \in 1..Len(sel) |-> [num |-> sel[i].text.a, den |-> sel[i].text.b]]

\* faulty variant: the loop is left at the first file that fails
Advanced_StopsAtFailure(w) ==
    LET more == w.index < w.total /\ w.raised[Len(w.raised)] = "ok" IN
    [w EXCEPT !.progress = ProgressOf(w.index, w.total),
              !.index = IF more THEN @ + 1 ELSE @,
              !.pc = IF more THEN "loop" ELSE "summary",
              !.doc = "None", !.exc = ""]

Advanced(w) ==
    [w EXCEPT !.progress = ProgressOf(w.index, w.total),
              !.index = IF w.index < w.total THEN @ + 1 ELSE @,
              !.pc = IF w.index < w.total THEN "loop" ELSE "summary",
              !.doc = "None", !.exc = ""]

FileDone(t, w, outcome) ==
    Advanced([Accounted(w, outcome) EXCEPT
                !.raised = Append(@, outcome),
                !.posted = @ \o PostedValues(FileDonePosts(t, w, outcome))])

\* faulty variant: the file found at the destination is left in place
remove_Nothing(files, dest) == files

\* os.remove(pdf_path_abs)
remove(files, dest) == [files EXCEPT ![dest] = Absent]

\* the top of an iteration and the head of _convert_file: the destination is
\* computed and the file found there is removed
W_Loop(t) ==
    /\ threads[t].pc = "loop"
    /\ LET w == [threads[t] EXCEPT
                    !.found = Append(@, fs[DestOf(threads[t])]),
                    !.attempted = Append(@, threads[t].files[threads[t].index])]
           started == LogMsg(t, Text("Converting", w.index, 0, ""))
       IN IF fs[DestOf(w)].kind = "absent"
          THEN /\ threads' = [threads EXCEPT ![t] = [w EXCEPT !.pc = "Open"]]
               /\ queue' = Append(queue, started)
               /\ fs' = fs
               /\ faults' = faults
          ELSE \E ok \in Returns :
                 IF ok
                 THEN /\ Raised(ok)
                      /\ fs' = remove(fs, DestOf(w))
                      /\ threads' = [threads EXCEPT ![t] =
                                        [w EXCEPT !.pc = "Open"]]
                      /\ queue' = Append(queue, started)
                 ELSE /\ Raised(ok)
                      /\ fs' = fs
                      /\ threads' = [threads EXCEPT ![t] =
                                        FileDone(t, w, "remove")]
                      /\ queue' = queue \o <<started>>
                                        \o FileDonePosts(t, w, "remove")
    /\ UNCHANGED << ui, ops, word >>

\* doc = word_app.Documents.Open(doc_path_abs, ReadOnly=True)
W_Open(t) ==
    /\ threads[t].pc = "Open"
    /\ LET w == threads[t] IN
       \E ok \in Returns :
         IF ok
         THEN /\ Raised(ok)
              /\ threads' = [threads EXCEPT ![t] =
                     [@ EXCEPT !.doc = "obj", !.pc = "Export"]]
              /\ word' = [word EXCEPT ![t] =
                     [@ EXCEPT !.docs = @ \cup {w.index}]]
              /\ queue' = queue
         ELSE /\ Raised(ok)
              /\ threads' = [threads EXCEPT ![t] = FileDone(t, w, "open")]
              /\ word' = word
              /\ queue' = queue \o FileDonePosts(t, w, "open")
    /\ UNCHANGED << ui, ops, fs >>

\* doc.ExportAsFixedFormat(pdf_path_abs, wd_format_pdf)
W_Export(t) ==
    /\ threads[t].pc = "Export"
    /\ LET w == threads[t] IN
       \E ok \in Returns :
         IF ok
         THEN /\ Raised(ok)
              /\ fs' = [fs EXCEPT ![DestOf(w)] = Pdf(t, w.index)]
              /\ threads' = [threads EXCEPT ![t] = [@ EXCEPT !.pc = "Close"]]
         ELSE /\ Raised(ok)
              /\ fs' = fs
              /\ threads' = [threads EXCEPT ![t] =
                     [@ EXCEPT !.pc = "Close", !.exc = "export"]]
    /\ UNCHANGED << ui, ops, queue, word >>

\* faulty variant: the exception of the export is lost when Close returns
Outcome_ExportErrorLost(w, ok) == IF ~ok THEN "close" ELSE "ok"

\* how _convert_file ends: a Close that raises replaces the exception in
\* flight, else the exception of the export goes on, else the path is returned
Outcome(w, ok) ==
    IF ~ok THEN "close" ELSE IF w.exc # "" THEN w.exc ELSE "ok"

\* faulty variant: the document is closed only after an export that returned
AfterClose_OnlyOnSuccess(docs, w, closed) ==
    IF closed /\ w.exc = "" THEN docs \ {w.index} ELSE docs

\* the documents open in Word after doc.Close(False)
AfterClose(docs, w, closed) ==
    IF closed THEN docs \ {w.index} ELSE docs

\* the finally clause of _convert_file: doc.Close(False); a Close that raises
\* replaces the exception in flight and may leave the document open
W_Close(t) ==
    /\ threads[t].pc = "Close"
    /\ LET w == threads[t] IN
       \E ok \in Returns, closed \in BOOLEAN :
         LET outcome == Outcome(w, ok)
         IN /\ ok => closed
            /\ Raised(ok)
            /\ word' = [word EXCEPT ![t] =
                   [@ EXCEPT !.docs = AfterClose(@, w, closed)]]
            /\ threads' = [threads EXCEPT ![t] = FileDone(t, w, outcome)]
            /\ queue' = queue \o FileDonePosts(t, w, outcome)
    /\ UNCHANGED << ui, ops, fs >>

\* '- {os.path.basename(path)}: {reason}' for each failure
Details(failures) ==
    [i \in 1..Len(failures) |->
        [stem |-> failures[i].path.stem, ext |-> failures[i].path.ext,
         reason |-> failures[i].reason]]

SummaryMessage(w) ==
    Text("Converted of file(s).", w.success_count, w.total,
         IF w.failures # <<>> THEN " Check log for details." ELSE "")

\* faulty variant: the information dialog is shown whatever the failures
SummaryBox_AlwaysInfo(t, w) ==
    BoxMsg(t, "messagebox.showinfo", "Conversion complete",
           SummaryMessage(w), <<>>)

\* the end-of-run dialog after the loop
SummaryBox(t, w) ==
    IF w.failures # <<>>
    THEN BoxMsg(t, "messagebox.showwarning", "Conversion completed with errors",
                Plain("Some files could not be converted."), Details(w.failures))
    ELSE BoxMsg(t, "messagebox.showinfo", "Conversion complete",
                SummaryMessage(w), <<>>)

W_Summary(t) ==
    /\ threads[t].pc = "summary"
    /\ LET w == threads[t] IN
       /\ queue' = queue \o << LogMsg(t, SummaryMessage(w)),
                               StatusMsg(t, SummaryMessage(w)),
                               SummaryBox(t, w) >>
       /\ threads' = [threads EXCEPT ![t] =
              [@ EXCEPT !.pc = "finally",
                        !.dialogs = Append(@, SummaryBox(t, w).title)]]
    /\ UNCHANGED << ui, ops, faults, word, fs >>

\* the lines of the formatted traceback: the header, the frames, the exception
TraceLines(t, exc) ==
    << LogMsg(t, Text("Traceback (most recent call last):", 0, 0, exc)),
       LogMsg(t, Text("  File ..., line ..., in _run_conversion", 0, 0, exc)),
       LogMsg(t, Text("Exception", 0, 0, exc)) >>

\* self._log_thread_error('Unexpected error during conversion', exc)
_log_thread_error(t, exc) ==
    LET message == Text("Unexpected error during conversion", 0, 0, exc) IN
    << LogMsg(t, message) >> \o TraceLines(t, exc) \o
    << StatusMsg(t, message),
       BoxMsg(t, "messagebox.showerror", "Conversion error", message, <<>>) >>

\* faulty variant: the except clause sets the status itself, not by a callback
W_Except_SetsStatusDirectly(t) ==
    /\ threads[t].pc = "except"
    /\ queue' = queue \o
          SelectSeq(_log_thread_error(t, threads[t].exc),
                    LAMBDA m : m.fn # "_set_status")
    /\ status_var' =
          Text("Unexpected error during conversion", 0, 0, threads[t].exc)
    /\ threads' = [threads EXCEPT ![t] =
           [@ EXCEPT !.pc = "finally", !.exc = "",
                     !.dialogs = Append(@, "Conversion error")]]
    /\ UNCHANGED << selected_files, output_dir_var, progress_var, log,
                    controls, conversion_thread, notice, ops, faults, word, fs >>

W_Except(t) ==
    /\ threads[t].pc = "except"
    /\ queue' = queue \o _log_thread_error(t, threads[t].exc)
    /\ threads' = [threads EXCEPT ![t] =
           [@ EXCEPT !.pc = "finally", !.exc = "",
                     !.dialogs = Append(@, "Conversion error")]]
    /\ UNCHANGED << ui, ops, faults, word, fs >>

\* faulty variant: a log line is registered after the re-enable callback
FinallyPosts_ThenLog(t) ==
    << ToggleMsg(t, "normal"), LogMsg(t, Plain("Conversion finished.")) >>

\* what the finally clause of _run_conversion posts when nothing in it raised
FinallyPosts(t) == << ToggleMsg(t, "normal") >>

\* faulty variant: Quit is the last statement of the try block
QuitDue_AfterLoop(w) ==
    w.word_app # "None" /\ w.total > 0 /\ Len(w.raised) = w.total

\* if word_app is not None
QuitDue(w) == w.word_app # "None"

\* the finally clause of _run_conversion.  A Quit that raises leaves the
\* clause at once: the thread dies with the exception, and the instance may
\* or may not be gone.
W_Finally(t) ==
    /\ threads[t].pc = "finally"
    /\ IF QuitDue(threads[t])
       THEN \E ok \in Returns, gone \in BOOLEAN :
              IF ok
              THEN /\ gone
                   /\ Raised(ok)
                   /\ word' = [word EXCEPT ![t] =
                          [@ EXCEPT !.state = "quit", !.quits = @ + 1,
                                    !.docs = {}]]
                   /\ queue' = queue \o FinallyPosts(t)
                   /\ threads' = [threads EXCEPT ![t] = [@ EXCEPT !.pc = "exit"]]
              ELSE /\ Raised(ok)
                   /\ word' = [word EXCEPT ![t] =
                          IF gone
                          THEN [@ EXCEPT !.state = "quit", !.quits = @ + 1,
                                         !.docs = {}]
                          ELSE [@ EXCEPT !.quits = @ + 1]]
                   /\ queue' = queue
                   /\ threads' = [threads EXCEPT ![t] =
                          [NoThread EXCEPT !.pc = "crashed"]]
       ELSE /\ faults' = faults
            /\ word' = word
            /\ queue' = queue \o FinallyPosts(t)
            /\ threads' = [threads EXCEPT ![t] = [@ EXCEPT !.pc = "exit"]]
    /\ UNCHANGED << ui, ops, fs >>

\* _run_conversion returns and the thread ends
W_Exit(t) ==
    /\ threads[t].pc = "exit"
    /\ threads' = [threads EXCEPT ![t] = [NoThread EXCEPT !.pc = "done"]]
    /\ UNCHANGED << ui, ops, faults, queue, word, fs >>

(* -------------------------------------------------------- the event loop *)
\* the Tk event loop runs the oldest callback registered with root.after
UI_Apply ==
    /\ queue # <<>>
    /\ LET m == Head(queue) IN
       /\ queue' = Tail(queue)
       /\ log' = IF m.fn = "_append_log" THEN Append(log, m.text) ELSE log
       /\ status_var' = IF m.fn = "_set_status" THEN m.text ELSE status_var
       /\ progress_var' = IF m.fn = "progress_var.set"
                          THEN [num |-> m.text.a, den |-> m.text.b]
                          ELSE progress_var
       /\ controls' = IF m.fn = "_toggle_controls" THEN m.text.kind
                      ELSE controls
       /\ notice' = IF m.title # "" THEN m.title ELSE notice
    /\ UNCHANGED << ops, faults, selected_files, output_dir_var,
                    conversion_thread, threads, word, fs >>

Next ==
    \/ add_files
    \/ clear_file_list
    \/ choose_output_directory
    \/ edit_output_entry
    \/ start_conversion
    \/ UI_Apply
    \/ \E t \in Tids : W_CoInitialize(t)
    \/ \E t \in Tids : W_DispatchEx(t)
    \/ \E t \in Tids : W_Visible(t)
    \/ \E t \in Tids : W_Loop(t)
    \/ \E t \in Tids : W_Open(t)
    \/ \E t \in Tids : W_Export(t)
    \/ \E t \in Tids : W_Close(t)
    \/ \E t \in Tids : W_Summary(t)
    \/ \E t \in Tids : W_Except(t)
    \/ \E t \in Tids : W_Finally(t)
    \/ \E t \in Tids : W_Exit(t)

Spec == Init /\ [][Next]_vars

(* ================================================================ claims *)
\* the thread is inside the loop of _run_conversion or past it
InLoop(w) == w.pc \in {"loop", "Open", "Export", "Close"}
PastLoop(w) == w.pc \in {"finally", "exit"} /\ w.total > 0
                  /\ Len(w.raised) = w.total
\* the summary has been posted and the finally clause has not run yet
Summarised(w) == w.pc = "finally" /\ PastLoop(w)

\* the positions of the files whose conversion raised, in processing order
FailedAt(raised) ==
    SelectSeq([i \in 1..Len(raised) |-> i], LAMBDA i : raised[i] # "ok")

\* the status message posted by thread t has been applied or is pending
StatusReported(t, text) ==
    \/ status_var = text
    \/ \E i \in DOMAIN queue :
          queue[i].t = t /\ queue[i].fn = "_set_status" /\ queue[i].text = text

(* C1: in a run over N >= 1 files in which Word launched and k files raised *)
(* a per-file error, the summary reports N-k of N, the failure list is the  *)
(* k failing files, each once, in processing order, and after every file    *)
(* successes plus failures equals the number of files processed.            *)
C1_SummaryCounts ==
    \A t \in Tids :
      LET w == threads[t]
          N == Len(w.files)
          bad == FailedAt(w.raised)
          k == Len(bad)
      IN /\ (InLoop(w) \/ w.pc = "summary" \/ PastLoop(w)) =>
              /\ w.success_count + Len(w.failures) = Len(w.raised)
              /\ Len(w.failures) = k
              /\ \A i \in 1..k : w.failures[i].path = w.files[bad[i]]
         /\ Summarised(w) =>
              /\ StatusReported(t,
                    [kind |-> "Converted of file(s).", a |-> N - k, b |-> N,
                     e |-> IF k > 0 THEN " Check log for details." ELSE "",
                     p |-> <<>>])
              /\ \A i \in DOMAIN queue :
                    (queue[i].t = t /\ queue[i].fn = "messagebox.showwarning") =>
                       /\ Len(queue[i].d) = k
                       /\ \A j \in 1..k :
                             /\ queue[i].d[j].stem = w.files[bad[j]].stem
                             /\ queue[i].d[j].ext = w.files[bad[j]].ext

\* a run of two files in which the first failed and the second was converted
C1_Witness ==
    \E t \in Tids :
       /\ Summarised(threads[t])
       /\ threads[t].raised = << "open", "ok" >>
       /\ threads[t].success_count = 1

\* the progress messages of thread t still waiting in the event loop
PendingProgress(t) ==
    { i \in DOMAIN queue : queue[i].t = t /\ queue[i].fn = "progress_var.set" }

(* C2: the progress value posted after file i of N is (i/N)*100 whether the *)
(* file succeeded or failed; the values of a run never decrease, start from *)
(* the 0 set at the start of the run and reach 100 after the last file.     *)
C2_Progress ==
    \A t \in Tids :
      LET w == threads[t]
          N == w.total
      IN /\ (InLoop(w) \/ w.pc = "summary" \/ PastLoop(w)) =>
              /\ Len(w.posted) = Len(w.raised)
              /\ \A i \in 1..Len(w.posted) :
                    w.posted[i].num * N = i * 100 * w.posted[i].den
              /\ \A i \in 1..(Len(w.posted) - 1) :
                    w.posted[i].num * w.posted[i + 1].den
                        <= w.posted[i + 1].num * w.posted[i].den
         /\ (w.pc \in {"CoInitialize", "DispatchEx", "Visible"}
                \/ (InLoop(w) /\ w.posted = <<>>)) =>
              progress_var = [num |-> 0, den |-> 1]
         /\ (w.pc = "summary" \/ PastLoop(w)) =>
              w.posted[N] = [num |-> 100, den |-> 1]
         /\ (Summarised(w) /\ PendingProgress(t) = {}) =>
              progress_var = [num |-> 100, den |-> 1]

\* two files, the first failed: 50 then 100 were posted and 100 is shown
C2_Witness ==
    \E t \in Tids :
       /\ Summarised(threads[t])
       /\ threads[t].raised[1] # "ok"
       /\ threads[t].posted = << [num |-> 50, den |-> 1], [num |-> 100, den |-> 1] >>
       /\ progress_var = [num |-> 100, den |-> 1]

\* the thread stands between two files (or after the last): j files done
Between(w) == w.pc \in {"loop", "summary"} \/ PastLoop(w)

\* the destination of file j of the snapshot of w
DestinationOf(w, j) == << normpath_dir(w.output_dir), w.files[j].stem >>

(* C3 as stated: whenever a processed file found a file at its destination, *)
(* the destination holds the PDF of this conversion once the processing of  *)
(* that input is finished.                                                  *)
C3_AlwaysReplaced ==
    \A t \in Tids :
      LET w == threads[t]
          j == Len(w.raised)
      IN (Between(w) /\ j >= 1 /\ w.found[j].kind # "absent") =>
            fs[DestinationOf(w, j)] = [kind |-> "pdf", run |-> t, idx |-> j]

(* C3 amended: once the processing of an input that found a file at its    *)
(* destination is finished, the destination holds the PDF of this           *)
(* conversion if the input was converted, and it still holds the earlier    *)
(* content exactly when removing that content raised (the input is then     *)
(* reported as failed).                                                     *)
C3_ReplacedUnlessFailed ==
    \A t \in Tids :
      LET w == threads[t]
          j == Len(w.raised)
          now == fs[DestinationOf(w, j)]
          new == [kind |-> "pdf", run |-> t, idx |-> j]
      IN (Between(w) /\ j >= 1 /\ w.found[j].kind # "absent") =>
            /\ w.raised[j] = "ok" => now = new
            /\ now = w.found[j] <=> w.raised[j] = "remove"

\* a file was found at the destination and the conversion replaced it
C3_Witness ==
    \E t \in Tids :
      LET w == threads[t]
          j == Len(w.raised)
      IN /\ Between(w) /\ j >= 1
         /\ w.found[j].kind = "pdf"
         /\ w.raised[j] = "ok"
         /\ fs[DestinationOf(w, j)] = [kind |-> "pdf", run |-> t, idx |-> j]

\* the selection cannot be converted
InvalidSelection ==
    \/ selected_files = <<>>
    \/ output_dir_var = EmptyText
    \/ ~isdir(output_dir_var)

(* C4: a start request made while the file list is empty, or the output     *)
(* folder is empty or does not exist, starts no worker, launches no Word    *)
(* and leaves the file list, the output folder, the progress value, the     *)
(* status, the log and the state of the controls as they were.              *)
C4_InvalidStartNoEffect ==
    [][ (start_conversion /\ InvalidSelection) =>
           UNCHANGED << selected_files, output_dir_var, progress_var,
                        status_var, log, controls, conversion_thread,
                        queue, threads, word, fs >> ]_vars

\* a start request was refused for a folder that does not exist
C4_Witness ==
    /\ notice = "Invalid folder"
    /\ selected_files # <<>>
    /\ output_dir_var = DirGone
    /\ Started = {}

(* C5: at most one conversion worker is alive in every reachable state; a   *)
(* start request issued while a worker is alive shows the notice            *)
(* "Conversion in progress", starts no second worker, queues nothing and    *)
(* leaves progress, log and controls unchanged.                             *)
C5_OneWorker ==
    /\ [](Cardinality(Alive) <= 1)
    /\ [][ (start_conversion /\ Alive # {}) =>
              /\ notice' = "Conversion in progress"
              /\ UNCHANGED << selected_files, output_dir_var, progress_var,
                              status_var, log, controls, conversion_thread,
                              queue, threads, word, fs >> ]_vars

\* a start request was refused while the worker of the first run was alive
C5_Witness ==
    /\ notice = "Conversion in progress"
    /\ Alive = {1}
    /\ Started = {1}

(* C6: every started run re-enables the four controls, also when launching *)
(* Word fails and when Quit raises in the teardown: once the worker has     *)
(* ended and the event loop has run every callback it registered, the       *)
(* controls are enabled.                                                    *)
C6_ControlsRestored ==
    (Started # {} /\ Alive = {} /\ queue = <<>>) => controls = "normal"

IsPrefix(s, q) == Len(s) <= Len(q) /\ SubSeq(q, 1, Len(s)) = s

(* C8: a per-file failure never aborts the batch: in a run in which Word    *)
(* launched every file of the snapshot is attempted exactly once, in list   *)
(* order, whatever the outcomes of the files before it.                     *)
C8_EveryFileAttempted ==
    \A t \in Tids :
      LET w == threads[t] IN
      /\ (InLoop(w) \/ w.pc = "summary" \/ PastLoop(w)) =>
            /\ IsPrefix(w.attempted, w.files)
            /\ Len(w.raised) <= Len(w.attempted)
            /\ Len(w.attempted) <= Len(w.raised) + 1
      /\ w.pc = "loop" => Len(w.attempted) = Len(w.raised)
      /\ (w.pc = "summary" \/ (w.pc \in {"finally", "exit"} /\ w.total > 0)) =>
            w.attempted = w.files

\* the first of two files failed and the second was attempted and converted
C8_Witness ==
    \E t \in Tids :
       /\ PastLoop(threads[t])
       /\ Len(threads[t].files) = 2
       /\ threads[t].attempted = threads[t].files
       /\ threads[t].raised[1] # "ok"
       /\ threads[t].raised[2] = "ok"

\* every file of the finished loop of w was reported as converted
AllConverted(w) ==
    PastLoop(w) /\ \A j \in 1..w.total : w.raised[j] = "ok"

(* C9 as stated: after a run over N distinct input files that are all       *)
(* reported as converted, the output folder holds one PDF of that run for   *)
(* each input, at <output_dir>/<stem>.pdf.                                  *)
C9_OnePdfPerInput ==
    \A t \in Tids :
      LET w == threads[t] IN
      AllConverted(w) =>
         \A j \in 1..w.total :
            fs[DestinationOf(w, j)] = [kind |-> "pdf", run |-> t, idx |-> j]

(* C9 amended: after a run over N input files that are all reported as      *)
(* converted and whose destinations <output_dir>/<stem>.pdf are pairwise    *)
(* distinct, the output folder holds N PDFs of that run, one for each       *)
(* input at its destination.                                                *)
C9_OnePdfPerDestination ==
    \A t \in Tids :
      LET w == threads[t] IN
      (AllConverted(w) /\ \A i, j \in 1..w.total :
                             i # j => w.files[i].stem # w.files[j].stem) =>
         /\ \A j \in 1..w.total :
               fs[DestinationOf(w, j)] = [kind |-> "pdf", run |-> t, idx |-> j]
         /\ Cardinality({ d \in Dests : fs[d].kind = "pdf" /\ fs[d].run = t })
               = w.total

\* two inputs with different stems were converted into another folder
C9_Witness ==
    \E t \in Tids :
      LET w == threads[t] IN
      /\ AllConverted(w)
      /\ w.total = 2
      /\ w.files[1].stem # w.files[2].stem
      /\ w.output_dir # dirname(w.files[1])
      /\ \A j \in 1..2 : fs[DestinationOf(w, j)].run = t

(* C10: after any sequence of add-files and clear-list the list holds no    *)
(* two equal normalized paths; an add leaves the entries already in the     *)
(* list at their places (a path whose normalized form is in the list adds   *)
(* nothing), and entries leave the list only by a clear.                    *)
C10_NoDuplicates ==
    /\ [](\A i, j \in DOMAIN selected_files :
             i # j => normpath(selected_files[i]) # normpath(selected_files[j]))
    /\ [][ \/ selected_files' = <<>>
           \/ IsPrefix(selected_files, selected_files') ]_vars
    /\ [][ selected_files' = <<>> /\ selected_files # <<>>
             => clear_file_list ]_vars

\* the dialog returned only paths whose normalized form was in the list
C10_Witness ==
    /\ status_var.kind = "No new files added"
    /\ selected_files = << File(DirA, "x", "docx") >>

(* C11: Clear list, from every state in which it can be invoked, leaves the *)
(* selected file list empty and the progress value at 0, and leaves the     *)
(* output folder unchanged.                                                 *)
C11_ClearResets ==
    [][ clear_file_list =>
           /\ selected_files' = <<>>
           /\ progress_var' = [num |-> 0, den |-> 1]
           /\ output_dir_var' = output_dir_var ]_vars

\* the list was cleared after a run that had brought the progress to 100
C11_Witness ==
    \E t \in Tids :
       /\ threads[t].pc = "exit"
       /\ threads[t].posted # <<>>
       /\ status_var = Plain("Cleared file list.")
       /\ selected_files = <<>>
       /\ progress_var = Zero
       /\ output_dir_var # EmptyText

\* Word could not be launched: the thread is in the except or the finally
\* clause of _run_conversion, or past it, and word_app was never assigned
LaunchFailed(w) ==
    w.pc \in {"except", "finally", "exit"} /\ w.word_app = "None"

\* the callbacks of thread t still waiting in the event loop
Pending(t) == SelectSeq(queue, LAMBDA m : m.t = t)

(* C12: when launching Word fails at the start of a run the run is aborted: *)
(* no file of the snapshot is attempted and nothing is written, progress    *)
(* stays at 0, the error notice and no completion dialog is posted, and the *)
(* controls are re-enabled afterwards.                                      *)
C12_LaunchFailureAborts ==
    \A t \in Tids :
      LET w == threads[t] IN
      /\ LaunchFailed(w) =>
            /\ w.attempted = <<>> /\ w.raised = <<>> /\ w.posted = <<>>
            /\ word[t].launches = 0 /\ word[t].docs = {}
            /\ \A d \in Dests : fs[d].run # t
            /\ progress_var = [num |-> 0, den |-> 1]
            /\ \A i \in DOMAIN queue :
                  queue[i].t = t =>
                     /\ queue[i].fn # "progress_var.set"
                     /\ queue[i].title \in {"", "Conversion error"}
            /\ w.pc \in {"finally", "exit"} =>
                  /\ w.dialogs = << "Conversion error" >>
                  /\ \/ notice = "Conversion error"
                     \/ controls = "normal"
                     \/ \E i \in DOMAIN queue :
                           /\ queue[i].t = t
                           /\ queue[i].fn = "messagebox.showerror"
            /\ w.pc = "exit" =>
                  \/ Pending(t) = <<>> /\ controls = "normal"
                  \/ /\ Pending(t) # <<>>
                     /\ Pending(t)[Len(Pending(t))] = ToggleMsg(t, "normal")
      /\ (word[t].launches = 0 /\ threads[t].pc \notin {"unborn"}) =>
            threads[t].pc # "crashed"
      /\ (conversion_thread = t /\ threads[t].pc = "done"
             /\ word[t].launches = 0 /\ queue = <<>>) => controls = "normal"

\* DispatchEx raised: the error notice is shown, the controls are enabled
\* again and nothing was attempted
C12_Witness ==
    \E t \in Tids :
       /\ threads[t].pc = "exit"
       /\ threads[t].com_initialized
       /\ threads[t].word_app = "None"
       /\ notice = "Conversion error"
       /\ controls = "normal"
       /\ queue = <<>>
       /\ log # <<>>

\* the files of w whose document was opened and whose Close raised
CloseRaised(w) == { j \in 1..Len(w.raised) : w.raised[j] = "close" }
\* the file whose document is open between Open and Close
Current(w) == IF w.pc \in {"Export", "Close"} THEN {w.index} ELSE {}

(* C13 as stated: every document that was opened is closed, whether its     *)
(* export succeeded or failed, before the next file is opened and before    *)
(* Word is quit: at most one document is open at any time and none is open  *)
(* when the next file is opened or Quit is called.                          *)
C13_AllClosed ==
    \A t \in Tids :
       /\ Cardinality(word[t].docs) <= 1
       /\ threads[t].pc \in {"loop", "Open", "summary", "finally"} =>
             word[t].docs = {}

(* C13 amended: Close(False) is called on every document that was opened,   *)
(* whether its export succeeded or failed, before the next file is opened   *)
(* and before Quit is called; the only documents open besides the one being *)
(* exported are those whose Close itself raised, so without such a failure  *)
(* at most one document is open at any time and none when Quit is called.   *)
C13_ClosedUnlessCloseRaised ==
    \A t \in Tids :
      LET w == threads[t] IN
      is_alive(t) =>
         /\ word[t].docs \subseteq (CloseRaised(w) \cup Current(w))
         /\ Current(w) \subseteq word[t].docs
         /\ CloseRaised(w) = {} =>
               /\ Cardinality(word[t].docs) <= 1
               /\ w.pc \in {"loop", "Open", "summary", "finally", "exit"} =>
                     word[t].docs = {}

\* the export of the first file raised, its document was closed and the
\* document of the second file is the only one open
C13_Witness ==
    \E t \in Tids :
       /\ threads[t].pc = "Export"
       /\ threads[t].raised = << "export" >>
       /\ word[t].docs = {2}

(* C14: in every reachable state the four controls are enabled if and only  *)
(* if no worker is alive, so that a start request made while the controls   *)
(* are enabled and the selection is valid is never refused with the notice  *)
(* "Conversion in progress".                                                *)
C14_ControlsFollowRunState ==
    /\ [](controls = "normal" <=> Alive = {})
    /\ [][ (start_conversion /\ controls = "normal" /\ ~InvalidSelection) =>
              StartVerdict # "Conversion in progress" ]_vars

(* C15: a run works on the snapshot taken at start: the files and the       *)
(* output folder of the worker are the file list and the output folder at   *)
(* the moment the start was accepted, they do not change while the worker   *)
(* is alive whatever is done in the UI, the files attempted are the files   *)
(* of the snapshot in order and every PDF of the run is written to          *)
(* <snapshot folder>/<stem of a snapshot file>.pdf.                         *)
C15_RunUsesSnapshot ==
    /\ [][ \A t \in Tids :
             /\ (threads[t].pc = "unborn" /\ threads'[t].pc # "unborn") =>
                   /\ threads'[t].files = selected_files
                   /\ threads'[t].output_dir = output_dir_var
             /\ (is_alive(t) /\ threads'[t].pc \notin {"done", "crashed"}) =>
                   /\ threads'[t].files = threads[t].files
                   /\ threads'[t].output_dir = threads[t].output_dir ]_vars
    /\ [](\A t \in Tids :
            LET w == threads[t] IN
            is_alive(t) =>
               /\ IsPrefix(w.attempted, w.files)
               /\ \A d \in Dests :
                     (fs[d].kind = "pdf" /\ fs[d].run = t) =>
                        /\ fs[d].idx \in 1..Len(w.attempted)
                        /\ d = DestinationOf(w, fs[d].idx))

\* the output folder was changed in the entry while the run was active, and
\* the PDF was written to the folder of the snapshot
C15_Witness ==
    \E t \in Tids :
      LET w == threads[t] IN
      /\ PastLoop(w)
      /\ w.output_dir = DirA
      /\ output_dir_var = DirB
      /\ w.raised = << "ok" >>
      /\ fs[<< DirA, w.files[1].stem >>] = Pdf(t, 1)
      /\ fs[<< DirB, w.files[1].stem >>] = Absent

\* what a run shows: progress, status, log, enablement of the buttons, dialogs
shown == << progress_var, status_var, log, controls, notice >>

\* a step of a worker thread: a thread moves and the user asked for nothing
WorkerStep == threads' # threads /\ ops' = ops

\* the event loop runs the oldest callback, which a started worker registered
CallbackStep ==
    /\ queue # <<>>
    /\ queue' = Tail(queue)
    /\ Head(queue).t \in Started
    /\ threads' = threads

(* C16: the worker never writes what the UI owns: a step of the worker      *)
(* leaves progress, status, log, controls, dialogs, file list and output    *)
(* folder as they are and only registers callbacks behind those waiting;    *)
(* every change of progress, status, log, controls or dialog that is not a  *)
(* request of the user is made by the event loop running the oldest         *)
(* callback a worker registered.                                            *)
C16_WorkerPostsOnly ==
    /\ [][ WorkerStep =>
              /\ UNCHANGED ui
              /\ IsPrefix(queue, queue') ]_vars
    /\ [][ shown' # shown => (ops' = ops + 1 \/ CallbackStep) ]_vars
    /\ [][ CallbackStep =>
              LET m == Head(queue) IN
              /\ (progress_var' # progress_var) => m.fn = "progress_var.set"
              /\ (status_var' # status_var) => m.fn = "_set_status"
              /\ (log' # log) => m.fn = "_append_log"
              /\ (controls' # controls) => m.fn = "_toggle_controls"
              /\ (notice' # notice) => m.title # "" ]_vars

\* every callback of an aborted run has been applied: its status, its log,
\* its dialog and the enablement of the buttons came through the event loop
C16_Witness ==
    \E t \in Tids :
       /\ threads[t].pc = "exit"
       /\ threads[t].dialogs = << "Conversion error" >>
       /\ queue = <<>>
       /\ status_var.kind = "Unexpected error during conversion"
       /\ Len(log) > 1
       /\ notice = "Conversion error"
       /\ controls = "normal"

(* C17: Add files sets the output folder to the folder of the first entry   *)
(* of the list exactly when the output folder is empty and the list is not  *)
(* empty after the add; in every other case, in particular whenever the     *)
(* output folder is already set, it leaves the output folder unchanged.     *)
C17_DefaultOutputOnly ==
    [][ add_files =>
          IF output_dir_var = <<>> /\ selected_files' # <<>>
          THEN output_dir_var' = selected_files'[1].dir
          ELSE output_dir_var' = output_dir_var ]_vars

\* a file of folder B was added first, which set the output folder to B; a
\* file of folder A was added next and the output folder is still B
C17_Witness ==
    /\ ops = 2
    /\ status_var = Text("Loaded", 1, 2, "")
    /\ Len(selected_files) = 2
    /\ selected_files[1].dir = DirB
    /\ selected_files[2].dir = DirA
    /\ output_dir_var = DirB

\* the dialogs among the callbacks of thread t still waiting
PendingBoxes(t) == SelectSeq(queue, LAMBDA m : m.t = t /\ m.title # "")

C19_OutcomeMatchesDisk ==
    \A t \in Tids :
      LET w == threads[t] IN
      PastLoop(w) =>
         \A j \in 1..w.total :
            w.raised[j] = "ok" <=> fs[DestinationOf(w, j)] = Pdf(t, j)

(* C19 amended: for every file of a finished run, a file counted as a       *)
(* success has the PDF produced for it by this run at its destination when  *)
(* the run ends unless a later file of the run has the same destination;    *)
(* a file in the failure list has a PDF produced for it by this run only if *)
(* its export returned and closing its document raised.                     *)
C19_SuccessHasPdf ==
    \A t \in Tids :
      LET w == threads[t] IN
      PastLoop(w) =>
         \A j \in 1..w.total :
            /\ (w.raised[j] = "ok"
                 /\ \A k \in (j + 1)..w.total :
                       DestinationOf(w, k) # DestinationOf(w, j))
                  => fs[DestinationOf(w, j)] = Pdf(t, j)
            /\ fs[DestinationOf(w, j)] = Pdf(t, j)
                  => w.raised[j] \in {"ok", "close"}

\* of two files with different destinations the first was converted and the
\* export of the second raised: one PDF, at the destination of the first
C19_Witness ==
    \E t \in Tids :
      LET w == threads[t] IN
      /\ PastLoop(w)
      /\ w.raised = << "ok", "export" >>
      /\ DestinationOf(w, 1) # DestinationOf(w, 2)
      /\ fs[DestinationOf(w, 1)] = Pdf(t, 1)
      /\ fs[DestinationOf(w, 2)].kind = "absent"

(* C20: the callback that re-enables the controls is the last one a worker  *)
(* registers and callbacks run in the order registered: a re-enable         *)
(* callback is the last in the event loop, so when the controls are enabled *)
(* no callback is waiting, and every clear-list and every accepted start    *)
(* happens with no callback of an earlier run left to be applied.           *)
C20_ReenableIsLast ==
    /\ [](\A i \in DOMAIN queue :
            queue[i].fn = "_toggle_controls" =>
               /\ i = Len(queue)
               /\ threads[queue[i].t].pc \in {"exit", "done"})
    /\ [](controls = "normal" => queue = <<>>)
    /\ [][ \/ IsPrefix(queue, queue')
           \/ queue # <<>> /\ queue' = Tail(queue) ]_vars
    /\ [][ (clear_file_list \/ (start_conversion /\ threads' # threads)) =>
              queue = <<>> /\ queue' = <<>> ]_vars

\* the list was cleared after a run: its messages are all in the log and
\* nothing is left in the event loop
C20_Witness ==
    /\ Started = {1}
    /\ threads[1].pc = "done"
    /\ status_var = Plain("Cleared file list.")
    /\ Len(log) >= 4
    /\ controls = "normal"
    /\ queue = <<>>
====
